---------------------------- MODULE Spec2Model ----------------------------
(***************************************************************************)
(* A model of src/simple.rs: SheetSession, the memory-mapped, line-indexed *)
(* CSV accessor (new_from_file, get_grid_chunk, get_header_chunk,          *)
(* number_to_col_name, byte_count_char).                                   *)
(*                                                                         *)
(* Bytes and chars are numbers (a byte 0..255, a char its code point); a   *)
(* String / &str / &[u8] is a sequence of them.  Offsets are zero-based as *)
(* in the source; Slice turns a Rust half-open range into a subsequence.  *)
(*                                                                         *)
(* i64 and usize keep a width: I64Max stands for i64::MAX and usize has    *)
(* the same number of bits, so `x as usize` of a negative x is             *)
(* x + 2*(I64Max+1).  The width is scaled down so that the values fit the  *)
(* model checker's integers; only the position of the boundary relative to *)
(* the data matters to the code.  u8 keeps its real width.                 *)
(*                                                                         *)
(* Arithmetic overflow is not undefined in Rust but depends on the build:  *)
(* with overflow checks (the debug profile) it panics, without (release)  *)
(* it wraps.  `build` is chosen nondeterministically once per run.         *)
(***************************************************************************)
EXTENDS Integers, Sequences, FiniteSets, TLC

VARIABLES
    file,    \* the bytes of the file on disk (frozen while mapped)
    build,   \* "debug" (overflow checks) or "release" (wrapping)
    sess,    \* <<>> before open, <<SheetSession>> after a successful open
    call,    \* <<>> or <<the last completed query with its outcome>>
    thr,     \* per caller thread: a query in progress (concurrent spec)
    namer    \* number_to_col_name run step by step (namer spec)

vars == <<file, build, sess, call, thr, namer>>

---------------------------------------------------------------------------
(* Bounds of the model *)

MaxFileLen == 3      \* longest generated file, in bytes
MaxStart == 2        \* largest ordinary row_start / col_start tried
MaxCount == 3        \* largest row_count / col_count tried
I64Max == 32767      \* stands for i64::MAX (scaled width)
NamerMaxIdx == 710   \* largest index given to number_to_col_name alone
ConcFileLen == 2     \* longest file of the concurrent specification
ConcMaxCount == 2    \* largest count a concurrent caller asks for

(* Program constants *)

LF == 10             \* b'\n'
COMMA == 44          \* b',' and ','
BYTE_A == 65         \* b'A'
RADIX == 26          \* the 26 of number_to_col_name
U8_MOD == 256        \* u8 arithmetic is modulo 2^8
REPLACEMENT == 65533 \* U+FFFD, what from_utf8_lossy substitutes

Builds == {"debug", "release"}

USIZE_MOD == 2 * (I64Max + 1)
I64Min == 0 - I64Max - 1

---------------------------------------------------------------------------
(* Primitive Rust operations *)

\* &s[start..end] on a slice with zero-based half-open bounds
Slice(s, start, end) == SubSeq(s, start + 1, end)

\* x as usize, for an i64 x (two's complement reinterpretation)
AsUsize(x) == IF x < 0 THEN x + USIZE_MOD ELSE x

\* i64 addition x + y: [panic, val].  Overflow panics under overflow checks
\* and wraps otherwise.
AddI64(b, x, y) ==
    LET s == x + y IN
    IF s > I64Max
      THEN [panic |-> b = "debug", val |-> s - USIZE_MOD]
      ELSE IF s < I64Min
        THEN [panic |-> b = "debug", val |-> s + USIZE_MOD]
        ELSE [panic |-> FALSE, val |-> s]

\* Rust's / and % truncate toward zero
DivT(x, y) == IF x >= 0 THEN x \div y ELSE 0 - ((0 - x) \div y)
RemT(x, y) == IF x >= 0 THEN x % y ELSE 0 - ((0 - x) % y)

\* x as u8 for an i64 x: the low eight bits
AsU8(x) == x % U8_MOD

\* usize::saturating_sub
SaturatingSub(x, y) == IF x >= y THEN x - y ELSE 0

\* String::from_utf8_lossy on the bytes the model generates: ASCII bytes
\* decode to themselves, and 0xFF (invalid wherever it stands) becomes one
\* U+FFFD per occurrence.
FromUtf8Lossy(bytes) ==
    [i \in 1..Len(bytes) |->
        IF bytes[i] < 128 THEN bytes[i] ELSE REPLACEMENT]

\* str::split(','): the fields between the commas, empty ones included;
\* n commas give n+1 fields.
RECURSIVE SplitFrom(_, _, _, _)
SplitFrom(str, i, cur, acc) ==
    IF i > Len(str) THEN Append(acc, cur)
    ELSE IF str[i] = COMMA
      THEN SplitFrom(str, i + 1, <<>>, Append(acc, cur))
      ELSE SplitFrom(str, i + 1, Append(cur, str[i]), acc)

Split(str) == SplitFrom(str, 1, <<>>, <<>>)

---------------------------------------------------------------------------
(* fn byte_count_char(slice, target) *)

byte_count_char(slice, target) ==
    Cardinality({i \in 1..Len(slice) : slice[i] = target})

---------------------------------------------------------------------------
(* SheetSession::new_from_file, after File::open and Mmap::map succeeded *)

\* the scan of lines 51-58: offset 0, then i+1 for every byte i that is \n
RECURSIVE ScanFrom(_, _, _)
ScanFrom(mmap, i, acc) ==
    IF i >= Len(mmap) THEN acc
    ELSE IF mmap[i + 1] = LF
      THEN ScanFrom(mmap, i + 1, Append(acc, i + 1))
      ELSE ScanFrom(mmap, i + 1, acc)

\* a scan that records the position of the \n instead of the byte after it
RECURSIVE ScanAtNewline(_, _, _)
ScanAtNewline(mmap, i, acc) ==
    IF i >= Len(mmap) THEN acc
    ELSE IF mmap[i + 1] = LF
      THEN ScanAtNewline(mmap, i + 1, Append(acc, i))
      ELSE ScanAtNewline(mmap, i + 1, acc)

BuildRowOffsetsAtNewline(mmap) == ScanAtNewline(mmap, 0, <<0>>)

BuildRowOffsets(mmap) == ScanFrom(mmap, 0, <<0>>)

\* *row_offsets.get(1).unwrap_or(&mmap.len())
FirstLineEnd(row_offsets, mmap) ==
    IF Len(row_offsets) > 1 THEN row_offsets[2] ELSE Len(mmap)

EstimateCols(total_rows, row_offsets, mmap) ==
    IF total_rows > 0
      THEN byte_count_char(Slice(mmap, 0, FirstLineEnd(row_offsets, mmap)),
                           COMMA) + 1
      ELSE 0

new_from_file(bytes) ==
    LET row_offsets == BuildRowOffsets(bytes)
        total_rows == Len(row_offsets)
    IN  [total_rows  |-> total_rows,
         total_cols  |-> EstimateCols(total_rows, row_offsets, bytes),
         mmap        |-> bytes,
         row_offsets |-> row_offsets]

---------------------------------------------------------------------------
(* SheetSession::get_grid_chunk *)

\* a stop that comes one row early
PastEndOffByOne(current_row_idx, total_rows) ==
    current_row_idx >= total_rows - 1

\* line 98: stop when the row index is past the end of the file
PastEnd(current_row_idx, total_rows) == current_row_idx >= total_rows

\* an end that keeps the \n in the row
EndByteKeepsLineFeed(s, u) ==
    IF u + 1 < Len(s.row_offsets)
      THEN s.row_offsets[u + 2]
      ELSE Len(s.mmap)

\* lines 104-108: the end of row u is the next row's start minus one (the
\* \n), or the end of the mapping for the last index entry
EndByte(s, u) ==
    IF u + 1 < Len(s.row_offsets)
      THEN SaturatingSub(s.row_offsets[u + 2], 1)
      ELSE Len(s.mmap)

\* lines 129-133: the field at target_col, or padding
CellContent(all_cols, target_col) ==
    IF target_col < Len(all_cols) THEN all_cols[target_col + 1] ELSE <<>>

\* a cell loop that stops at the row's last field instead of padding
RECURSIVE CellLoopTruncating(_, _, _, _, _, _)
CellLoopTruncating(b, all_cols, col_start, col_count, c, cells) ==
    IF c >= col_count THEN [panic |-> FALSE, cells |-> cells]
    ELSE LET sum == AddI64(b, col_start, c) IN
         IF sum.panic THEN [panic |-> TRUE, cells |-> <<>>]
         ELSE IF AsUsize(sum.val) >= Len(all_cols)
           THEN [panic |-> FALSE, cells |-> cells]
         ELSE CellLoopTruncating(b, all_cols, col_start, col_count, c + 1,
                       Append(cells, CellContent(all_cols, AsUsize(sum.val))))

\* lines 125-136: for c in 0..col_count
RECURSIVE CellLoop(_, _, _, _, _, _)
CellLoop(b, all_cols, col_start, col_count, c, cells) ==
    IF c >= col_count THEN [panic |-> FALSE, cells |-> cells]
    ELSE LET sum == AddI64(b, col_start, c) IN
         IF sum.panic THEN [panic |-> TRUE, cells |-> <<>>]
         ELSE CellLoop(b, all_cols, col_start, col_count, c + 1,
                       Append(cells, CellContent(all_cols, AsUsize(sum.val))))

\* lines 95-141: one iteration of `for r in 0..row_count`.
\* kind: "panic", "break" (line 98) or "row" (a RowData was pushed)
GridIter(s, b, row_start, col_start, col_count, r) ==
    LET sum == AddI64(b, row_start, r)
        current_row_idx == sum.val
        u == AsUsize(current_row_idx)
        none == [index |-> 0, cells |-> <<>>]
    IN
    IF sum.panic THEN [kind |-> "panic", row |-> none]
    ELSE IF PastEnd(current_row_idx, s.total_rows)
      THEN [kind |-> "break", row |-> none]
    ELSE IF u >= Len(s.row_offsets)              \* row_offsets[..] out of bounds
      THEN [kind |-> "panic", row |-> none]
    ELSE LET start_byte == s.row_offsets[u + 1]
             end_byte == EndByte(s, u)
         IN
         IF start_byte >= end_byte
           THEN [kind |-> "row",
                 row |-> [index |-> current_row_idx, cells |-> <<>>]]
         ELSE IF end_byte > Len(s.mmap)          \* mmap[a..b] out of bounds
           THEN [kind |-> "panic", row |-> none]
         ELSE LET line_str == FromUtf8Lossy(Slice(s.mmap, start_byte, end_byte))
                  all_cols == Split(line_str)
                  cl == CellLoop(b, all_cols, col_start, col_count, 0, <<>>)
              IN
              IF cl.panic THEN [kind |-> "panic", row |-> none]
              ELSE [kind |-> "row",
                    row |-> [index |-> current_row_idx, cells |-> cl.cells]]

RECURSIVE GridLoop(_, _, _, _, _, _, _, _)
GridLoop(s, b, row_start, row_count, col_start, col_count, r, results) ==
    IF r >= row_count THEN [status |-> "ok", result |-> results]
    ELSE LET it == GridIter(s, b, row_start, col_start, col_count, r) IN
         IF it.kind = "panic" THEN [status |-> "panic", result |-> <<>>]
         ELSE IF it.kind = "break" THEN [status |-> "ok", result |-> results]
         ELSE GridLoop(s, b, row_start, row_count, col_start, col_count,
                       r + 1, Append(results, it.row))

get_grid_chunk(s, b, row_start, row_count, col_start, col_count) ==
    GridLoop(s, b, row_start, row_count, col_start, col_count, 0, <<>>)

---------------------------------------------------------------------------
(* SheetSession::number_to_col_name *)

\* line 163: n = n / 26 - 1
NextN(n) == DivT(n, RADIX) - 1

\* a loop body that appends the letter instead of inserting it in front
NameStepAppending(b, n, result) ==
    LET remainder == AsU8(RemT(n, RADIX))
        sum == BYTE_A + remainder
        n2 == NextN(n)
    IN
    IF sum >= U8_MOD /\ b = "debug"
      THEN [panic |-> TRUE, n |-> n, result |-> result, stop |-> TRUE]
      ELSE [panic |-> FALSE, n |-> n2,
            result |-> Append(result, sum % U8_MOD),
            stop |-> n2 < 0]

\* lines 161-164: one pass of the loop body on (n, result).
\* b'A' + remainder is a u8 addition: it overflows when remainder > 190,
\* which a negative n produces.
NameStep(b, n, result) ==
    LET remainder == AsU8(RemT(n, RADIX))
        sum == BYTE_A + remainder
        n2 == NextN(n)
    IN
    IF sum >= U8_MOD /\ b = "debug"
      THEN [panic |-> TRUE, n |-> n, result |-> result, stop |-> TRUE]
      ELSE [panic |-> FALSE, n |-> n2,
            result |-> <<sum % U8_MOD>> \o result,
            stop |-> n2 < 0]

RECURSIVE NameLoop(_, _, _)
NameLoop(b, n, result) ==
    LET st == NameStep(b, n, result) IN
    IF st.panic THEN [panic |-> TRUE, name |-> <<>>]
    ELSE IF st.stop THEN [panic |-> FALSE, name |-> st.result]
    ELSE NameLoop(b, st.n, st.result)

number_to_col_name(b, n) == NameLoop(b, n, <<>>)

---------------------------------------------------------------------------
(* SheetSession::get_header_chunk *)

\* line 151: stop at the global column estimate
PastCols(actual_idx, total_cols) == actual_idx >= total_cols

\* lines 150-152: one iteration of `for i in 0..col_count`
HeaderIter(s, b, col_start, i) ==
    LET sum == AddI64(b, col_start, i)
        actual_idx == sum.val
    IN
    IF sum.panic THEN [kind |-> "panic", name |-> <<>>]
    ELSE IF PastCols(actual_idx, s.total_cols)
      THEN [kind |-> "break", name |-> <<>>]
    ELSE LET nm == number_to_col_name(b, actual_idx) IN
         IF nm.panic THEN [kind |-> "panic", name |-> <<>>]
         ELSE [kind |-> "name", name |-> nm.name]

RECURSIVE HeaderLoop(_, _, _, _, _, _)
HeaderLoop(s, b, col_start, col_count, i, headers) ==
    IF i >= col_count THEN [status |-> "ok", result |-> headers]
    ELSE LET it == HeaderIter(s, b, col_start, i) IN
         IF it.kind = "panic" THEN [status |-> "panic", result |-> <<>>]
         ELSE IF it.kind = "break" THEN [status |-> "ok", result |-> headers]
         ELSE HeaderLoop(s, b, col_start, col_count, i + 1,
                         Append(headers, it.name))

get_header_chunk(s, b, col_start, col_count) ==
    HeaderLoop(s, b, col_start, col_count, 0, <<>>)

---------------------------------------------------------------------------
(* The sequential specification: a file is opened once, then one caller    *)
(* issues queries one after the other.                                     *)

\* data bytes: 'a', ',', \n, \r and the invalid byte 0xFF
Alphabet == {97, 44, 10, 13, 255}

\* "a,b,c\n1,2,3\n4,5\n"
ExampleFile ==
    <<97, 44, 98, 44, 99, 10, 49, 44, 50, 44, 51, 10, 52, 44, 53, 10>>

Files == UNION {[1..n -> Alphabet] : n \in 0..MaxFileLen} \cup {ExampleFile}

Starts == (-1..MaxStart) \cup {I64Max}
Counts == -1..MaxCount

Threads == {1, 2}
IdleThread == [pc |-> "idle", op |-> "none", args |-> <<>>,
               k |-> 0, result |-> <<>>]
IdleNamer == [pc |-> "off", input |-> 0, n |-> 0, result |-> <<>>]

Init ==
    /\ file \in Files
    /\ build \in Builds
    /\ sess = <<>>
    /\ call = <<>>
    /\ thr = [t \in Threads |-> IdleThread]
    /\ namer = IdleNamer

\* new_from_file returns Ok(session)
Open ==
    /\ sess = <<>>
    /\ sess' = <<new_from_file(file)>>
    /\ UNCHANGED <<file, build, call, thr, namer>>

\* a call of get_grid_chunk(&self, ..) that runs to its end or panics
GridCall ==
    /\ sess # <<>>
    /\ call = <<>>
    /\ \E row_start \in Starts, row_count \in Counts,
          col_start \in Starts, col_count \in Counts :
         LET out == get_grid_chunk(sess[1], build, row_start, row_count,
                                   col_start, col_count)
         IN call' = <<[op |-> "grid",
                       args |-> <<row_start, row_count, col_start, col_count>>,
                       status |-> out.status, result |-> out.result]>>
    /\ UNCHANGED <<file, build, sess, thr, namer>>

\* a call of get_header_chunk(&self, ..)
HeaderCall ==
    /\ sess # <<>>
    /\ call = <<>>
    /\ \E col_start \in Starts, col_count \in Counts :
         LET out == get_header_chunk(sess[1], build, col_start, col_count)
         IN call' = <<[op |-> "header",
                       args |-> <<col_start, col_count>>,
                       status |-> out.status, result |-> out.result]>>
    /\ UNCHANGED <<file, build, sess, thr, namer>>

\* the caller takes the result (or the panic) and is ready for the next call
Return ==
    /\ call # <<>>
    /\ call' = <<>>
    /\ UNCHANGED <<file, build, sess, thr, namer>>

Next == Open \/ GridCall \/ HeaderCall \/ Return

Spec == Init /\ [][Next]_vars

---------------------------------------------------------------------------
(* Vocabulary of the properties.  These definitions describe the file and  *)
(* a call's arguments independently of the operators that model the code.  *)

Max(a, b) == IF a >= b THEN a ELSE b
Min(a, b) == IF a <= b THEN a ELSE b

\* the 1-based positions of sep in seq, and the n-th of them (n >= 1)
SepPositions(seq, sep) == {i \in 1..Len(seq) : seq[i] = sep}
NthSep(seq, sep, n) ==
    CHOOSE p \in SepPositions(seq, sep) :
        Cardinality({q \in SepPositions(seq, sep) : q <= p}) = n

SegCount(seq, sep) == Cardinality(SepPositions(seq, sep)) + 1

\* the k-th (zero-based) sep-separated segment of seq; <<-1>>, which is no
\* text, when seq has no such segment
Segment(seq, sep, k) ==
    IF k < 0 \/ k >= SegCount(seq, sep) THEN <<-1>>
    ELSE LET from == IF k = 0 THEN 1 ELSE NthSep(seq, sep, k) + 1
             to == IF k + 1 < SegCount(seq, sep)
                     THEN NthSep(seq, sep, k + 1) - 1
                     ELSE Len(seq)
         IN SubSeq(seq, from, to)

\* the fields of a sequence of cells joined with commas
RECURSIVE Join(_)
Join(cells) ==
    IF cells = <<>> THEN <<>>
    ELSE IF Len(cells) = 1 THEN cells[1]
    ELSE cells[1] \o <<COMMA>> \o Join(Tail(cells))

\* the UTF-8 bytes of a String of the model: ASCII is one byte, U+FFFD is
\* EF BF BD
RECURSIVE Utf8Bytes(_)
Utf8Bytes(str) ==
    IF str = <<>> THEN <<>>
    ELSE (IF str[1] < 128 THEN <<str[1]>> ELSE <<239, 191, 189>>)
         \o Utf8Bytes(Tail(str))

\* the bytes of row i as the index delimits them: from row_offsets[i] up to
\* but excluding the line feed before row_offsets[i+1], or to the end of the
\* mapping when i is the last entry
RowBytes(s, i) ==
    LET from == s.row_offsets[i + 1]
        to == IF i + 2 <= Len(s.row_offsets)
                THEN s.row_offsets[i + 2] - 1
                ELSE Len(s.mmap)
    IN Slice(s.mmap, from, to)

GridReturned ==
    call # <<>> /\ call[1].op = "grid" /\ call[1].status = "ok"
HeaderReturned ==
    call # <<>> /\ call[1].op = "header" /\ call[1].status = "ok"

---------------------------------------------------------------------------
(* C1 *)

\* C1: after a successful open no call of get_grid_chunk or
\* get_header_chunk fails, whatever the arguments; a count <= 0 yields an
\* empty result.
C1_NoQueryFails ==
    call # <<>> =>
        /\ call[1].status = "ok"
        /\ (call[1].op = "grid" /\ call[1].args[2] <= 0)
               => call[1].result = <<>>
        /\ (call[1].op = "grid" /\ call[1].args[4] <= 0)
               => \A k \in 1..Len(call[1].result) :
                      call[1].result[k].cells = <<>>
        /\ (call[1].op = "header" /\ call[1].args[2] <= 0)
               => call[1].result = <<>>

---------------------------------------------------------------------------
(* C2 *)

\* C2: for a zero-length file the session reports total_rows = 0 and
\* total_cols = 0 and every query returns an empty sequence.
C2_EmptyFile ==
    (sess # <<>> /\ file = <<>>) =>
        /\ sess[1].total_rows = 0
        /\ sess[1].total_cols = 0
        /\ (call # <<>> /\ call[1].status = "ok") => call[1].result = <<>>

---------------------------------------------------------------------------
(* C3 *)

\* the rows of a file when a line feed that is its last byte ends the final
\* row without starting another one
RowsOfFile(bytes) ==
    Cardinality(SepPositions(bytes, LF))
    + (IF bytes # <<>> /\ bytes[Len(bytes)] # LF THEN 1 ELSE 0)

ExampleRows ==
    << [index |-> 0, cells |-> << <<97>>, <<98>>, <<99>> >>],
       [index |-> 1, cells |-> << <<49>>, <<50>>, <<51>> >>],
       [index |-> 2, cells |-> << <<52>>, <<53>>, <<>> >>] >>

\* C3: total_rows is the number of rows of the file, a final line feed not
\* starting a further row; "a,b,c\n1,2,3\n4,5\n" has total_rows = 3,
\* total_cols = 3 and get_grid_chunk(0,3,0,3) returns its three rows, the
\* last one padded.
C3_TrailingLineFeed ==
    sess # <<>> =>
        /\ sess[1].total_rows = RowsOfFile(file)
        /\ file = ExampleFile =>
              /\ sess[1].total_rows = 3
              /\ sess[1].total_cols = 3
              /\ (GridReturned /\ call[1].args = <<0, 3, 0, 3>>)
                     => call[1].result = ExampleRows

---------------------------------------------------------------------------
(* C4 *)

\* the rows a window of row_count rows from row_start can hold
ExpectedRows(row_start, row_count, total_rows) ==
    Max(0, Min(row_count, total_rows - row_start))

\* the k-th returned row has index row_start + k, inside [row_start, total_rows)
ConsecutiveIndices(result, row_start, total_rows) ==
    \A k \in 1..Len(result) :
        /\ result[k].index = row_start + (k - 1)
        /\ result[k].index >= row_start
        /\ result[k].index < total_rows

\* C4 as stated: for row_start >= 0 and any row_count a returning call
\* yields max(0, min(row_count, total_rows - row_start)) rows, never more
\* than row_count, fewer exactly when row_start + row_count > total_rows,
\* with consecutive indices from row_start.
C4_AsStated ==
    (GridReturned /\ call[1].args[1] >= 0) =>
        LET row_start == call[1].args[1]
            row_count == call[1].args[2]
            n == Len(call[1].result)
        IN /\ n = ExpectedRows(row_start, row_count, sess[1].total_rows)
           /\ n <= row_count
           /\ (n < row_count) <=> (row_start + row_count > sess[1].total_rows)
           /\ ConsecutiveIndices(call[1].result, row_start, sess[1].total_rows)

\* C4 (amended): for row_start >= 0 and any row_count a returning call
\* yields max(0, min(row_count, total_rows - row_start)) rows, never more
\* than max(0, row_count), fewer than row_count exactly when row_count > 0
\* and row_start + row_count > total_rows, with consecutive indices from
\* row_start inside [row_start, total_rows).
C4_RowWindow ==
    (GridReturned /\ call[1].args[1] >= 0) =>
        LET row_start == call[1].args[1]
            row_count == call[1].args[2]
            n == Len(call[1].result)
        IN /\ n = ExpectedRows(row_start, row_count, sess[1].total_rows)
           /\ n <= Max(0, row_count)
           /\ (n < row_count) <=>
                  (row_count > 0 /\ row_start + row_count > sess[1].total_rows)
           /\ ConsecutiveIndices(call[1].result, row_start, sess[1].total_rows)

\* a window that starts inside the data and is cut short at total_rows
C4_Witness ==
    /\ GridReturned
    /\ call[1].args[1] >= 1
    /\ Len(call[1].result) >= 1
    /\ Len(call[1].result) < call[1].args[2]

---------------------------------------------------------------------------
(* C5 *)

\* the text of row i and the cell the claim expects at window position c
RowText(s, i) == FromUtf8Lossy(RowBytes(s, i))

\* C5 as stated: a returned row with a non-empty byte range has exactly
\* col_count cells, cell c being field col_start + c of the row when
\* col_start + c is below the row's field count and empty otherwise.
C5_AsStated ==
    GridReturned =>
        LET col_start == call[1].args[3]
            col_count == call[1].args[4]
        IN \A k \in 1..Len(call[1].result) :
             LET row == call[1].result[k]
                 text == RowText(sess[1], row.index)
             IN text # <<>> =>
                  /\ Len(row.cells) = col_count
                  /\ \A c \in 0..(col_count - 1) :
                       row.cells[c + 1] =
                         IF col_start + c < SegCount(text, COMMA)
                           THEN Segment(text, COMMA, col_start + c)
                           ELSE <<>>

\* C5 (amended): a returned row with a non-empty byte range has exactly
\* max(0, col_count) cells, cell c being field col_start + c of the row
\* when 0 <= col_start + c < the row's own field count and empty otherwise
\* (so also for a negative column index); the bound is the row's field
\* count, not total_cols, while a header call names no index >= total_cols.
C5_CellWindow ==
    /\ GridReturned =>
        LET col_start == call[1].args[3]
            col_count == call[1].args[4]
        IN \A k \in 1..Len(call[1].result) :
             LET row == call[1].result[k]
                 text == RowText(sess[1], row.index)
             IN text # <<>> =>
                  /\ Len(row.cells) = Max(0, col_count)
                  /\ \A c \in 0..(col_count - 1) :
                       row.cells[c + 1] =
                         IF 0 <= col_start + c
                            /\ col_start + c < SegCount(text, COMMA)
                           THEN Segment(text, COMMA, col_start + c)
                           ELSE <<>>
    /\ (HeaderReturned /\ call[1].result # <<>>) =>
           call[1].args[1] + Len(call[1].result) <= sess[1].total_cols

\* a ragged row: a real, non-empty field at a column index >= total_cols,
\* next to a padded cell
C5_Witness ==
    /\ GridReturned
    /\ call[1].args[3] >= 0
    /\ \E k \in 1..Len(call[1].result) :
         LET cells == call[1].result[k].cells IN
         /\ \E c \in 1..Len(cells) :
              /\ call[1].args[3] + (c - 1) >= sess[1].total_cols
              /\ cells[c] # <<>>
         /\ \E c \in 1..Len(cells) :
              /\ call[1].args[3] + (c - 1)
                   >= SegCount(RowText(sess[1], call[1].result[k].index), COMMA)
              /\ cells[c] = <<>>

---------------------------------------------------------------------------
(* The bijective base-26 names, defined without the loop of the code: the  *)
(* names of length len are the len-digit base-26 numerals over A..Z, and   *)
(* they follow all shorter names.                                          *)

RECURSIVE Pow26(_)
Pow26(len) == IF len = 0 THEN 1 ELSE RADIX * Pow26(len - 1)

\* how many names are shorter than len: 26 + 26^2 + ... + 26^(len-1)
RECURSIVE ShorterNames(_)
ShorterNames(len) ==
    IF len <= 1 THEN 0 ELSE ShorterNames(len - 1) + Pow26(len - 1)

RECURSIVE NameLength(_, _)
NameLength(idx, len) ==
    IF idx < ShorterNames(len + 1) THEN len ELSE NameLength(idx, len + 1)

\* the name of idx >= 0; <<-1>>, which is no name, for a negative idx
RefName(idx) ==
    IF idx < 0 THEN <<-1>>
    ELSE LET len == NameLength(idx, 1)
             off == idx - ShorterNames(len)
         IN [p \in 1..len |-> BYTE_A + ((off \div Pow26(len - p)) % RADIX)]

---------------------------------------------------------------------------
(* C6 *)

\* the statement of C6 for a returned header call whose arguments are
\* col_start and col_count
HeaderWindow(result, col_start, col_count, total_cols) ==
    /\ Len(result) <= Max(0, col_count)
    /\ \A k \in 1..Len(result) :
         /\ col_start + (k - 1) >= 0
         /\ col_start + (k - 1) < total_cols
         /\ result[k] = RefName(col_start + (k - 1))
    /\ \/ Len(result) = Max(0, col_count)
       \/ col_start + Len(result) >= total_cols
    /\ (col_start = 0 /\ col_count = total_cols) => Len(result) = total_cols

\* C6: get_header_chunk(col_start, col_count) returns name(idx) for
\* idx = col_start, col_start + 1, ... in order, stopping at the first
\* idx >= total_cols or after col_count entries; the length is in
\* [0, col_count] (empty for a count <= 0), every entry names an index in
\* [0, total_cols), and (0, total_cols) yields name(0..total_cols-1).
C6_HeaderNames ==
    HeaderReturned =>
        HeaderWindow(call[1].result, call[1].args[1], call[1].args[2],
                     sess[1].total_cols)

\* The same statement for col_start >= 0, where moreover no call fails.
C6_NonNegativeStart ==
    (call # <<>> /\ call[1].op = "header" /\ call[1].args[1] >= 0) =>
        /\ call[1].status = "ok"
        /\ HeaderWindow(call[1].result, call[1].args[1], call[1].args[2],
                        sess[1].total_cols)

---------------------------------------------------------------------------
(* C7 *)

LineIndexOk(s) ==
    /\ s.mmap = file
    /\ Len(s.row_offsets) = s.total_rows
    /\ s.row_offsets[1] = 0
    /\ \A k \in 1..(Len(s.row_offsets) - 1) :
           s.row_offsets[k] < s.row_offsets[k + 1]
    /\ \A k \in 2..Len(s.row_offsets) :
           /\ s.row_offsets[k] >= 1
           /\ s.row_offsets[k] <= Len(s.mmap)
           /\ s.mmap[s.row_offsets[k]] = LF
    /\ Len(s.row_offsets) - 1 = Cardinality(SepPositions(s.mmap, LF))

\* C7: row_offsets is strictly increasing, starts with 0, has total_rows
\* entries, has after the first exactly one entry per line feed, each one
\* past its line feed, and none beyond the file length; no later query
\* changes the index or the totals.
C7_LineIndex ==
    /\ [](sess # <<>> => LineIndexOk(sess[1]))
    /\ [][sess # <<>> => sess' = sess]_vars

\* an index of three rows after a query has run on it
C7_Witness ==
    /\ sess # <<>>
    /\ Len(sess[1].row_offsets) >= 3
    /\ GridReturned
    /\ Len(call[1].result) >= 2

---------------------------------------------------------------------------
(* C10 *)

ValidUtf8(bytes) == \A i \in 1..Len(bytes) : bytes[i] < 128

\* what C10 says of every returned row but the joining of the fields
RowsAreSlices ==
    \A k \in 1..Len(call[1].result) :
        LET row == call[1].result[k]
            i == row.index
            s == sess[1]
            bytes == RowBytes(s, i)
        IN /\ i >= 0 /\ i < s.total_rows
           /\ \A j \in 1..Len(bytes) : bytes[j] # LF
           /\ (i + 2 <= Len(s.row_offsets)) => s.mmap[s.row_offsets[i + 2]] = LF
           /\ \A c \in 1..Len(row.cells) : \A j \in 1..Len(row.cells[c]) :
                  row.cells[c][j] # LF /\ row.cells[c][j] # COMMA
           /\ bytes = <<>> => row.cells = <<>>

\* the fields of a returned row when the window shows all of them
AllFields(row) ==
    SubSeq(row.cells, 1, SegCount(RowBytes(sess[1], row.index), COMMA))

ShowsAllFields(row) ==
    /\ call[1].args[3] = 0
    /\ RowBytes(sess[1], row.index) # <<>>
    /\ call[1].args[4] >= SegCount(RowBytes(sess[1], row.index), COMMA)

\* C10 as stated: every returned row is the slice from row_offsets[i] to
\* its line feed (or the end of the mapping); no cell holds a line feed or
\* a comma; the fields joined with commas are the row's bytes; an empty
\* byte range gives zero cells.
C10_AsStated ==
    GridReturned =>
        /\ RowsAreSlices
        /\ \A k \in 1..Len(call[1].result) :
             LET row == call[1].result[k] IN
             ShowsAllFields(row) =>
                 Utf8Bytes(Join(AllFields(row))) = RowBytes(sess[1], row.index)

\* C10 (amended): as stated, except that the fields joined with commas are
\* the lossy UTF-8 decoding of the row's bytes, which has the row's bytes
\* when they are valid UTF-8 (an invalid byte comes back as U+FFFD).
C10_RowSlices ==
    GridReturned =>
        /\ RowsAreSlices
        /\ \A k \in 1..Len(call[1].result) :
             LET row == call[1].result[k]
                 bytes == RowBytes(sess[1], row.index)
             IN ShowsAllFields(row) =>
                 /\ Join(AllFields(row)) = FromUtf8Lossy(bytes)
                 /\ ValidUtf8(bytes) => Utf8Bytes(Join(AllFields(row))) = bytes

\* a row ending in a carriage return before its line feed, whose last field
\* keeps it, followed by a final row of no bytes returned with zero cells
C10_Witness ==
    /\ GridReturned
    /\ call[1].args[4] >= 1
    /\ Len(call[1].result) >= 2
    /\ ShowsAllFields(call[1].result[1])
    /\ LET f == AllFields(call[1].result[1])
           last == f[Len(f)]
       IN last # <<>> /\ last[Len(last)] = 13
    /\ call[1].result[2].cells = <<>>
    /\ call[1].result[2].index = sess[1].total_rows - 1

---------------------------------------------------------------------------
(* The namer specification: number_to_col_name alone, one pass of its loop *)
(* per step, on every index up to NamerMaxIdx.                             *)

InitNamer ==
    /\ file = <<>>
    /\ build \in Builds
    /\ sess = <<>>
    /\ call = <<>>
    /\ thr = [t \in Threads |-> IdleThread]
    /\ \E input \in 0..NamerMaxIdx :
         namer = [pc |-> "loop", input |-> input, n |-> input, result |-> <<>>]

\* lines 160-165: one pass of `loop { .. if n < 0 { break; } }`
NamerStep ==
    /\ namer.pc = "loop"
    /\ LET st == NameStep(build, namer.n, namer.result) IN
       namer' = [namer EXCEPT
                   !.pc = IF st.panic THEN "panic"
                          ELSE IF st.stop THEN "done" ELSE "loop",
                   !.n = st.n,
                   !.result = st.result]
    /\ UNCHANGED <<file, build, sess, call, thr>>

NextNamer == NamerStep

\* the loop is sequential code: while it can take a pass, it does
SpecNamer == InitNamer /\ [][NextNamer]_vars /\ WF_vars(NamerStep)

---------------------------------------------------------------------------
(* C8 *)

\* shorter first, then alphabetically
ShortLexLess(a, b) ==
    \/ Len(a) < Len(b)
    \/ /\ Len(a) = Len(b)
       /\ \E i \in 1..Len(a) :
            /\ a[i] < b[i]
            /\ \A j \in 1..(i - 1) : a[j] = b[j]

NameOk ==
    LET name == namer.result
        idx == namer.input
    IN /\ name # <<>>
       /\ \A p \in 1..Len(name) : name[p] >= BYTE_A /\ name[p] < BYTE_A + RADIX
       /\ name = RefName(idx)
       /\ number_to_col_name(build, idx) = [panic |-> FALSE, name |-> name]
       /\ idx = 0 => name = <<65>>
       /\ idx = 25 => name = <<90>>
       /\ idx = 26 => name = <<65, 65>>
       /\ idx = 701 => name = <<90, 90>>
       /\ idx = 702 => name = <<65, 65, 65>>
       /\ \A m \in 0..(idx - 1) :
            ShortLexLess(number_to_col_name(build, m).name, name)

\* C8: number_to_col_name terminates for every index n >= 0 and returns
\* the bijective base-26 name of n: non-empty, over A..Z, with 0 -> A,
\* 25 -> Z, 26 -> AA, 701 -> ZZ, 702 -> AAA; a larger index has a name that
\* is longer or, at equal length, alphabetically later, so names differ.
C8_ColumnNames ==
    /\ <>(namer.pc = "done")
    /\ [](namer.pc # "panic")
    /\ [](namer.pc = "done" => NameOk)

\* the first three-letter name has been produced
C8_Witness ==
    /\ namer.pc = "done"
    /\ namer.input = 702
    /\ namer.result = <<65, 65, 65>>

---------------------------------------------------------------------------
(* The concurrent specification: after the open, two caller threads share  *)
(* the session (&self) and run queries one loop iteration at a time, in    *)
(* any interleaving.                                                       *)

ConcFiles == UNION {[1..n -> {97, 44, 10}] : n \in 0..ConcFileLen}
ConcStarts == {0, 1}
ConcCounts == 1..ConcMaxCount

InitConc ==
    /\ file \in ConcFiles
    /\ build \in Builds
    /\ sess = <<>>
    /\ call = <<>>
    /\ thr = [t \in Threads |-> IdleThread]
    /\ namer = IdleNamer

\* thread t enters get_grid_chunk: `let mut results = Vec::new()`
GridBegin(t) ==
    /\ sess # <<>>
    /\ thr[t].pc = "idle"
    /\ \E row_start \in ConcStarts, row_count \in ConcCounts,
          col_start \in ConcStarts, col_count \in ConcCounts :
         thr' = [thr EXCEPT ![t] =
                   [pc |-> "running", op |-> "grid",
                    args |-> <<row_start, row_count, col_start, col_count>>,
                    k |-> 0, result |-> <<>>]]
    /\ UNCHANGED <<file, build, sess, call, namer>>

\* thread t enters get_header_chunk: `let mut headers = Vec::new()`
HeaderBegin(t) ==
    /\ sess # <<>>
    /\ thr[t].pc = "idle"
    /\ \E col_start \in ConcStarts, col_count \in ConcCounts :
         thr' = [thr EXCEPT ![t] =
                   [pc |-> "running", op |-> "header",
                    args |-> <<col_start, col_count>>,
                    k |-> 0, result |-> <<>>]]
    /\ UNCHANGED <<file, build, sess, call, namer>>

\* the thread's record after an iteration whose outcome is `kind`
AfterIter(me, kind, item) ==
    IF kind = "panic" THEN [me EXCEPT !.pc = "panicked", !.result = <<>>]
    ELSE IF kind = "break" THEN [me EXCEPT !.pc = "done"]
    ELSE [me EXCEPT !.k = me.k + 1, !.result = Append(me.result, item)]

\* a query that, finding the file's last row empty, drops it from the
\* session's row count
GridStepTrimming(t) ==
    /\ thr[t].pc = "running"
    /\ thr[t].op = "grid"
    /\ LET me == thr[t]
           s == sess[1]
       IN IF me.k >= me.args[2]
            THEN /\ thr' = [thr EXCEPT ![t] = [me EXCEPT !.pc = "done"]]
                 /\ sess' = sess
            ELSE LET it == GridIter(s, build, me.args[1], me.args[3],
                                    me.args[4], me.k)
                     trim == /\ it.kind = "row"
                             /\ it.row.cells = <<>>
                             /\ it.row.index = s.total_rows - 1
                 IN /\ thr' = [thr EXCEPT ![t] =
                                 AfterIter(me, IF trim THEN "break" ELSE it.kind,
                                           it.row)]
                    /\ sess' = IF trim
                                 THEN <<[s EXCEPT !.total_rows = s.total_rows - 1]>>
                                 ELSE sess
    /\ UNCHANGED <<file, build, call, namer>>

\* lines 94-142: thread t runs one iteration of `for r in 0..row_count`,
\* or leaves the loop and returns `results`
GridStep(t) ==
    /\ thr[t].pc = "running"
    /\ thr[t].op = "grid"
    /\ LET me == thr[t] IN
       IF me.k >= me.args[2]
         THEN thr' = [thr EXCEPT ![t] = [me EXCEPT !.pc = "done"]]
         ELSE LET it == GridIter(sess[1], build, me.args[1], me.args[3],
                                 me.args[4], me.k)
              IN thr' = [thr EXCEPT ![t] = AfterIter(me, it.kind, it.row)]
    /\ UNCHANGED <<file, build, sess, call, namer>>

\* lines 149-154: thread t runs one iteration of `for i in 0..col_count`,
\* or leaves the loop and returns `headers`
HeaderStep(t) ==
    /\ thr[t].pc = "running"
    /\ thr[t].op = "header"
    /\ LET me == thr[t] IN
       IF me.k >= me.args[2]
         THEN thr' = [thr EXCEPT ![t] = [me EXCEPT !.pc = "done"]]
         ELSE LET it == HeaderIter(sess[1], build, me.args[1], me.k)
              IN thr' = [thr EXCEPT ![t] = AfterIter(me, it.kind, it.name)]
    /\ UNCHANGED <<file, build, sess, call, namer>>

\* the caller drops the returned value and may call again
Finish(t) ==
    /\ thr[t].pc \in {"done", "panicked"}
    /\ thr' = [thr EXCEPT ![t] = IdleThread]
    /\ UNCHANGED <<file, build, sess, call, namer>>

NextConc ==
    \/ Open
    \/ \E t \in Threads : GridBegin(t)
    \/ \E t \in Threads : HeaderBegin(t)
    \/ \E t \in Threads : GridStep(t)
    \/ \E t \in Threads : HeaderStep(t)
    \/ \E t \in Threads : Finish(t)

SpecConc == InitConc /\ [][NextConc]_vars

---------------------------------------------------------------------------
(* C9 *)

\* what a call returns when nothing else runs
AloneResult(op, args) ==
    IF op = "grid"
      THEN get_grid_chunk(sess[1], build, args[1], args[2], args[3], args[4]).result
      ELSE get_header_chunk(sess[1], build, args[1], args[2]).result

Returned(t) == thr[t].pc = "done"

\* C9: the queries are pure functions of the frozen session and their
\* arguments: callers running concurrently in any interleaving leave mmap,
\* row_offsets, total_rows and total_cols unchanged, calls with identical
\* arguments return identical results, and each returns what it returns
\* when run alone.
C9_PureQueries ==
    /\ [][sess # <<>> => sess' = sess]_vars
    /\ [](\A t \in Threads : Returned(t) =>
             thr[t].result = AloneResult(thr[t].op, thr[t].args))
    /\ [](\A t, u \in Threads :
             (Returned(t) /\ Returned(u) /\ thr[t].op = thr[u].op
                /\ thr[t].args = thr[u].args)
               => thr[t].result = thr[u].result)

\* both threads have returned from get_grid_chunk with the same arguments
\* and a non-empty result
C9_Witness ==
    /\ Returned(1) /\ Returned(2)
    /\ thr[1].op = "grid" /\ thr[2].op = "grid"
    /\ thr[1].args = thr[2].args
    /\ Len(thr[1].result) >= 2

=============================================================================
